---- MODULE Spec2Model ----
(***************************************************************************)
(* A model of abfs.data.Data (src/abfs/data.py): the dataset facade that   *)
(* filters an annotation table, caches its identifier list and its         *)
(* train/val/test split, and plans batches as disposable sub-facades.      *)
(*                                                                         *)
(* Python objects live in a heap `objs` indexed by address; a method is an *)
(* operator over (heap, self) that returns the new heap and the value the  *)
(* method returns.  A dataframe is the sequence of its rows.               *)
(***************************************************************************)
EXTENDS Integers, Sequences, FiniteSets

VARIABLES
    objs,     \* heap: address -> Data object, NoneVal or AssertionError
    origin,   \* which batch accessor built objs["sub"], from which partition
    gen,      \* the (len_f, data_f) pair of train_generator and its consumer
    ret       \* the last call: operation, receiver, argument, returned value

vars == <<objs, origin, gen, ret>>

----------------------------------------------------------------------------
(* Bounds of the model *)

MaxViewIds == 3      \* image identifiers in the annotation table (Spec)
MaxViewBatchId == 1  \* batch indices 0..MaxViewBatchId handed to the accessors (Spec)
MaxIds == 5          \* image identifiers in the annotation table (SpecGen, SpecBatch)
MaxExtraIds == 3     \* tables of up to DefaultBatchSize + MaxExtraIds images (SpecBatch)
MaxBatchSize == 4    \* configured batch sizes 1..MaxBatchSize
MaxBatchId == 3      \* batch indices 0..MaxBatchId handed to the accessors
MaxSeed == 1         \* augmentation seeds 1..MaxSeed (and None)
MaxDraw == 2         \* outcomes of an unseeded random augmentation

(* Program constants *)

DefaultBatchSize == 16

----------------------------------------------------------------------------
(* Values *)

NoneVal == [kind |-> "None"]
AssertionError == [kind |-> "AssertionError"]
ZeroDivisionError == [kind |-> "ZeroDivisionError"]
ValueError == [kind |-> "ValueError"]
Some(v) == [kind |-> "int", v |-> v]

EmptyList == [kind |-> "list", items |-> <<>>]
NdArray(s) == [kind |-> "ndarray", items |-> s]

Addrs == {"parent", "sub"}

Min(a, b) == IF a <= b THEN a ELSE b

\* math.ceil(n / d) for n >= 0, d > 0
Ceil(n, d) == IF n % d = 0 THEN n \div d ELSE (n \div d) + 1

RECURSIVE Reverse(_)
Reverse(s) == IF s = <<>> THEN <<>> ELSE Append(Reverse(Tail(s)), Head(s))

RECURSIVE Unique(_)
\* pandas Series.unique(): the distinct values in order of first appearance
Unique(s) ==
    IF s = <<>> THEN <<>>
    ELSE LET front == Unique(SubSeq(s, 1, Len(s) - 1))
             last == s[Len(s)]
         IN IF \E i \in 1..Len(front) : front[i] = last
            THEN front ELSE Append(front, last)

\* df.ImageId : the identifier column of a dataframe
ImageIdCol(frame) == [i \in 1..Len(frame) |-> frame[i].ImageId]

\* df.ImageId.unique()
UniqueIds(frame) == Unique(ImageIdCol(frame))

\* df[df.ImageId.isin(image_ids)]
IsIn(frame, ids) ==
    SelectSeq(frame, LAMBDA r : \E i \in 1..Len(ids) : ids[i] = r.ImageId)

(***************************************************************************)
(* The annotation table of n images. Every image has one polygon record    *)
(* in a first pass; images 1, 5, 9, .. have a second record at the end, so *)
(* identifiers repeat and are not contiguous. Even images and the second   *)
(* records have a positive area.                                           *)
(***************************************************************************)
Table(n) ==
    [i \in 1..n |-> [ImageId |-> i, sq_ft |-> (i + 1) % 2]]
    \o SelectSeq([i \in 1..n |-> [ImageId |-> i, sq_ft |-> 2]],
                 LAMBDA r : r.ImageId % 4 = 1)

(* Data filters: predicates over the record table *)
ALWAYS_TRUE == "ALWAYS_TRUE"
Filters == {ALWAYS_TRUE, "HasArea", "Nothing"}

\* the boolean mask a filter yields for one row
Mask(flt, r) ==
    CASE flt = ALWAYS_TRUE -> TRUE
      [] flt = "HasArea"   -> r.sq_ft > 0
      [] flt = "Nothing"   -> FALSE

(* Augmentation configurations *)
MOVE_SCALE_ROTATE == "MOVE_SCALE_ROTATE"
SegAugConfigs == {MOVE_SCALE_ROTATE, "FLIP"}
Seeds == {NoneVal} \cup {Some(s) : s \in 1..MaxSeed}

\* SegmentationAugmentation(seg_aug_config, seed=aug_random_seed)
SegmentationAugmentation(seg_aug_config, seed) ==
    [config |-> seg_aug_config, seed |-> seed]

\* augmentation.run(images, masks): one transformed sample per input sample;
\* the transform is fixed by (config, seed) and random when the seed is None
AugmentationRun(augmentation, samples, draw) ==
    [i \in 1..Len(samples) |->
        [ImageId |-> samples[i].ImageId,
         aug |-> [config |-> augmentation.config,
                  seed |-> augmentation.seed,
                  draw |-> IF augmentation.seed = NoneVal THEN draw ELSE 0]]]

(* Split configurations: how many image groups go to validation and test *)
DEFAULT_SPLIT_CONFIG == [val_size |-> 1, test_size |-> 1]
SplitConfigs == {DEFAULT_SPLIT_CONFIG, [val_size |-> 2, test_size |-> 0]}

\* GroupDataSplit(df, 'ImageId', split_config): three dataframes whose
\* identifier sets are disjoint and cover df
GroupDataSplit(frame, split_config) ==
    LET ids == UniqueIds(frame)
        n == Len(ids)
        v == Min(split_config.val_size, n)
        t == Min(split_config.test_size, n - v)
    IN [kind |-> "GroupDataSplit",
        df |-> frame,
        _train_df |-> IsIn(frame, SubSeq(ids, 1, n - v - t)),
        val_df |-> IsIn(frame, SubSeq(ids, n - v - t + 1, n - t)),
        test_df |-> IsIn(frame, SubSeq(ids, n - t + 1, n))]

Orders == {"kept", "shuffled"}

\* GroupDataSplit.train_df(): the train dataframe, in a randomized row order
train_df(split, order) ==
    IF order = "shuffled" THEN Reverse(split._train_df) ELSE split._train_df

----------------------------------------------------------------------------
(* class Data *)

\* a variant of the constructor without the parity assertion
__init__unchecked(split_config, seg_aug_config, batch_size, override_df, aug_random_seed, augment) ==
    [kind |-> "Data",
     split_config |-> split_config,
     _df |-> override_df,
     _image_ids |-> EmptyList,
     _data_filter |-> ALWAYS_TRUE,
     _split_data |-> NoneVal,
     batch_size |-> batch_size,
     augment |-> augment,
     augmentation |-> SegmentationAugmentation(seg_aug_config,
                                               aug_random_seed)]

\* def __init__(self, config, split_config, seg_aug_config, batch_size,
\*              override_df, aug_random_seed, augment)
__init__(split_config, seg_aug_config, batch_size, override_df, aug_random_seed, augment) ==
    IF ~(augment = FALSE \/ batch_size % 2 = 0)
    THEN AssertionError
    ELSE [kind |-> "Data",
          split_config |-> split_config,
          _df |-> override_df,
          _image_ids |-> EmptyList,
          _data_filter |-> ALWAYS_TRUE,
          _split_data |-> NoneVal,
          batch_size |-> batch_size,
          augment |-> augment,
          augmentation |-> SegmentationAugmentation(seg_aug_config,
                                                    aug_random_seed)]

\* property df: the records visible under the active filter
df(h, self) ==
    SelectSeq(h[self]._df, LAMBDA r : Mask(h[self]._data_filter, r))

\* property image_ids. The list [] marks the cache as empty; once an ndarray
\* is stored, `self._image_ids == []` is not true of it, so it is returned
image_ids(h, self) ==
    LET h1 == IF h[self]._image_ids = EmptyList
              THEN [h EXCEPT ![self]._image_ids = NdArray(UniqueIds(df(h, self)))]
              ELSE h
    IN [heap |-> h1, val |-> h1[self]._image_ids]

\* property split_data
split_data(h, self) ==
    LET h1 == IF h[self]._split_data = NoneVal
              THEN [h EXCEPT ![self]._split_data =
                        GroupDataSplit(df(h, self), h[self].split_config)]
              ELSE h
    IN [heap |-> h1, val |-> h1[self]._split_data]

\* a variant of the setter that keeps the cached split
data_filter_setter_keeps_split(h, self, data_filter) ==
    [h EXCEPT ![self]._data_filter = data_filter]

\* a variant of the setter that stores the filter on the class
data_filter_setter_on_class(h, self, data_filter) ==
    [a \in DOMAIN h |->
        IF h[a].kind = "Data"
        THEN [h[a] EXCEPT !._data_filter = data_filter, !._split_data = NoneVal]
        ELSE h[a]]

\* @data_filter.setter
data_filter_setter(h, self, data_filter) ==
    [h EXCEPT ![self]._data_filter = data_filter,
              ![self]._split_data = NoneVal]

reset_filter(h, self) == data_filter_setter(h, self, ALWAYS_TRUE)

\* _to_single_nn: the (image, mask) pair of one identifier
_to_single_nn(image_id) == [ImageId |-> image_id, aug |-> NoneVal]

\* _augment_nn: the samples followed by their augmented copies
_augment_nn(h, self, samples, draw) ==
    samples \o AugmentationRun(h[self].augmentation, samples, draw)

\* _reshape_output: unpacks the (images, masks) pair, which is missing when
\* no identifier is visible
_reshape_output(samples) ==
    IF samples = <<>> THEN ValueError ELSE [kind |-> "samples", items |-> samples]

\* to_nn: the samples of the visible identifiers, in order, followed by their
\* augmented copies when augmentation is on (pixel scaling and the masks'
\* trailing channel axis leave the samples as they are)
to_nn(h, self, draw) ==
    LET ids == UniqueIds(df(h, self))
        samples == [i \in 1..Len(ids) |-> _to_single_nn(ids[i])]
    IN _reshape_output(IF h[self].augment /\ samples # <<>>
                       THEN _augment_nn(h, self, samples, draw)
                       ELSE samples)

\* int(augment)
PyInt(b) == IF b THEN 1 ELSE 0

\* an optional dataframe argument: None or a dataframe
DataFrame(rows) == [kind |-> "DataFrame", rows |-> rows]

\* a variant of _batch_count that ignores the augmentation flag
_batch_count_unhalved(h, self, frame, augment) ==
    Some(Ceil(Len(UniqueIds(frame)), h[self].batch_size))

\* _batch_count
_batch_count(h, self, frame, augment) ==
    LET batch_size == h[self].batch_size \div (PyInt(augment) + 1)
    IN IF batch_size = 0
       THEN ZeroDivisionError
       ELSE Some(Ceil(Len(UniqueIds(frame)), batch_size))

\* a variant of the slice that ignores the augmentation flag
_batch_image_ids_unhalved(h, self, frame, augment, batch_id) ==
    LET start_index == batch_id * h[self].batch_size
        end_index == start_index + h[self].batch_size
        ids == UniqueIds(frame)
    IN SubSeq(ids, start_index + 1, Min(end_index, Len(ids)))

\* the identifiers _batch_data slices out of a dataframe
_batch_image_ids(h, self, frame, augment, batch_id) ==
    LET batch_size == h[self].batch_size \div (PyInt(augment) + 1)
        start_index == batch_id * batch_size
        end_index == start_index + batch_size
        ids == UniqueIds(frame)
    IN SubSeq(ids, start_index + 1, Min(end_index, Len(ids)))

\* _batch_data: a new facade over the records of the batch's identifiers
_batch_data(h, self, frame, augment, batch_id) ==
    __init__(DEFAULT_SPLIT_CONFIG, MOVE_SCALE_ROTATE, DefaultBatchSize,
             IsIn(frame, _batch_image_ids(h, self, frame, augment, batch_id)),
             NoneVal, augment)

\* train_batch_data(batch_id, df=None)
train_batch_data(h, self, batch_id, frame, order) ==
    LET sd == split_data(h, self)
        h1 == IF frame = NoneVal THEN sd.heap ELSE h
        rows == IF frame = NoneVal THEN train_df(sd.val, order) ELSE frame.rows
    IN [heap |-> h1, frame |-> rows,
        val |-> _batch_data(h1, self, rows, h1[self].augment, batch_id)]

\* train_batch_count(df=None)
train_batch_count(h, self, frame, order) ==
    LET sd == split_data(h, self)
        h1 == IF frame = NoneVal THEN sd.heap ELSE h
        rows == IF frame = NoneVal THEN train_df(sd.val, order) ELSE frame.rows
    IN [heap |-> h1, frame |-> rows,
        val |-> _batch_count(h1, self, rows, h1[self].augment)]

\* a variant of val_batch_data that follows the facade's augment flag
val_batch_data_augmenting(h, self, batch_id) ==
    LET sd == split_data(h, self)
    IN [heap |-> sd.heap, frame |-> sd.val.val_df,
        val |-> _batch_data(sd.heap, self, sd.val.val_df,
                            sd.heap[self].augment, batch_id)]

val_batch_data(h, self, batch_id) ==
    LET sd == split_data(h, self)
    IN [heap |-> sd.heap, frame |-> sd.val.val_df,
        val |-> _batch_data(sd.heap, self, sd.val.val_df, FALSE, batch_id)]

val_batch_count(h, self) ==
    LET sd == split_data(h, self)
    IN [heap |-> sd.heap, frame |-> sd.val.val_df,
        val |-> _batch_count(sd.heap, self, sd.val.val_df, FALSE)]

test_batch_data(h, self, batch_id) ==
    LET sd == split_data(h, self)
    IN [heap |-> sd.heap, frame |-> sd.val.test_df,
        val |-> _batch_data(sd.heap, self, sd.val.test_df, FALSE, batch_id)]

test_batch_count(h, self) ==
    LET sd == split_data(h, self)
    IN [heap |-> sd.heap, frame |-> sd.val.test_df,
        val |-> _batch_count(sd.heap, self, sd.val.test_df, FALSE)]

\* train_generator's params(): the train dataframe is read once and bound
\* into both functions of the pair
params(h, self, order) ==
    LET sd == split_data(h, self)
    IN [heap |-> sd.heap, val |-> DataFrame(train_df(sd.val, order))]

\* len_f = rpartial(self.train_batch_count, df)
len_f(h, self, frame, order) == train_batch_count(h, self, frame, order)

\* a variant of data_f that is not bound to the dataframe params() read
data_f_unbound(h, self, batch_id, frame, order) ==
    train_batch_data(h, self, batch_id, NoneVal, order)

\* data_f = rpartial(self.train_batch_data, df)
data_f(h, self, batch_id, frame, order) ==
    train_batch_data(h, self, batch_id, frame, order)

----------------------------------------------------------------------------
(* The state after construction *)

InitWith(sizes, batch_sizes, augments, configs, seeds, split_configs) ==
    \E n \in sizes, b \in batch_sizes, a \in augments, c \in configs,
       s \in seeds, sc \in split_configs :
        /\ objs = [parent |-> __init__(sc, c, b, Table(n), s, a),
                   sub |-> NoneVal]
        /\ origin = NoneVal
        /\ gen = NoneVal
        /\ ret = [op |-> "__init__", who |-> "parent",
                  arg |-> [batch_size |-> b, augment |-> a], val |-> NoneVal]

Exists(f) == objs[f].kind = "Data"

Return(op, who, arg, val) ==
    ret' = [op |-> op, who |-> who, arg |-> arg, val |-> val]

----------------------------------------------------------------------------
(* Operations on a facade *)

SetFilter(f, flt) ==
    /\ Exists(f)
    /\ objs' = data_filter_setter(objs, f, flt)
    /\ Return("data_filter=", f, flt, NoneVal)
    /\ UNCHANGED <<origin, gen>>

ResetFilter(f) ==
    /\ Exists(f)
    /\ objs' = reset_filter(objs, f)
    /\ Return("reset_filter", f, NoneVal, NoneVal)
    /\ UNCHANGED <<origin, gen>>

ReadImageIds(f) ==
    /\ Exists(f)
    /\ LET r == image_ids(objs, f)
       IN /\ objs' = r.heap
          /\ Return("image_ids", f, NoneVal, r.val)
    /\ UNCHANGED <<origin, gen>>

ReadSplitData(f) ==
    /\ Exists(f)
    /\ LET r == split_data(objs, f)
       IN /\ objs' = r.heap
          /\ Return("split_data", f, NoneVal, r.val)
    /\ UNCHANGED <<origin, gen>>

ToNN(f) ==
    /\ Exists(f)
    /\ \E draw \in 1..MaxDraw :
          Return("to_nn", f, NoneVal, to_nn(objs, f, draw))
    /\ UNCHANGED <<objs, origin, gen>>

\* a batch accessor returned facade r.val, built from partition r.frame
Batch(kind, op, batch_id, r) ==
    /\ objs' = [r.heap EXCEPT !["sub"] = r.val]
    /\ origin' = [kind |-> kind, batch_id |-> batch_id, frame |-> r.frame]
    /\ Return(op, "parent", batch_id, NoneVal)

TrainBatchData(batch_id) ==
    /\ Exists("parent")
    /\ \E order \in Orders :
          Batch("train", "train_batch_data", batch_id,
                train_batch_data(objs, "parent", batch_id, NoneVal, order))
    /\ UNCHANGED gen

ValBatchData(batch_id) ==
    /\ Exists("parent")
    /\ Batch("val", "val_batch_data", batch_id,
             val_batch_data(objs, "parent", batch_id))
    /\ UNCHANGED gen

TestBatchData(batch_id) ==
    /\ Exists("parent")
    /\ Batch("test", "test_batch_data", batch_id,
             test_batch_data(objs, "parent", batch_id))
    /\ UNCHANGED gen

\* a batch counter returned r.val for partition r.frame
Count(op, r) ==
    /\ objs' = r.heap
    /\ Return(op, "parent", DataFrame(r.frame), r.val)
    /\ UNCHANGED <<origin, gen>>

TrainBatchCount ==
    /\ Exists("parent")
    /\ \E order \in Orders :
          Count("train_batch_count",
                train_batch_count(objs, "parent", NoneVal, order))

ValBatchCount ==
    /\ Exists("parent")
    /\ Count("val_batch_count", val_batch_count(objs, "parent"))

TestBatchCount ==
    /\ Exists("parent")
    /\ Count("test_batch_count", test_batch_count(objs, "parent"))

(***************************************************************************)
(* train_generator: the generator object calls params() once, then the     *)
(* count function, then the data function for batch 0, 1, ..               *)
(***************************************************************************)
Params ==
    /\ Exists("parent")
    /\ \E order \in Orders :
          LET r == params(objs, "parent", order)
          IN /\ objs' = r.heap
             /\ gen' = [kind |-> "pair", frame |-> r.val, count |-> NoneVal,
                        next |-> 0, batches |-> <<>>]
             /\ Return("params", "parent", NoneVal, r.val)
    /\ UNCHANGED origin

LenF ==
    /\ gen # NoneVal
    /\ gen.count = NoneVal
    /\ \E order \in Orders :
          LET r == len_f(objs, "parent", gen.frame, order)
          IN /\ objs' = r.heap
             /\ gen' = [gen EXCEPT !.count = r.val]
             /\ Return("len_f", "parent", NoneVal, r.val)
    /\ UNCHANGED origin

DataF ==
    /\ gen # NoneVal
    /\ gen.count.kind = "int"
    /\ gen.next < gen.count.v
    /\ \E order \in Orders :
          LET r == data_f(objs, "parent", gen.next, gen.frame, order)
          IN /\ objs' = [r.heap EXCEPT !["sub"] = r.val]
             /\ origin' = [kind |-> "train", batch_id |-> gen.next,
                           frame |-> r.frame]
             /\ gen' = [gen EXCEPT !.next = @ + 1,
                                   !.batches = Append(@, UniqueIds(r.val._df))]
             /\ Return("data_f", "parent", gen.next, NoneVal)

----------------------------------------------------------------------------
(* Spec: a default-configured facade, its filter and caches, and the       *)
(* sub-facades of its batches                                              *)

Init ==
    InitWith(0..MaxViewIds, {DefaultBatchSize}, {FALSE}, {MOVE_SCALE_ROTATE},
             {NoneVal}, SplitConfigs)

Next ==
    \/ \E f \in Addrs, flt \in Filters : SetFilter(f, flt)
    \/ \E f \in Addrs : ResetFilter(f)
    \/ \E f \in Addrs : ReadImageIds(f)
    \/ \E f \in Addrs : ReadSplitData(f)
    \/ \E f \in Addrs : ToNN(f)
    \/ \E i \in 0..MaxViewBatchId : TrainBatchData(i)
    \/ \E i \in 0..MaxViewBatchId : ValBatchData(i)
    \/ \E i \in 0..MaxViewBatchId : TestBatchData(i)

Spec == Init /\ [][Next]_vars

(* SpecGen: a configured facade driven through train_generator while its   *)
(* filter changes                                                          *)

InitGen ==
    InitWith(0..MaxIds, 1..MaxBatchSize, BOOLEAN, {MOVE_SCALE_ROTATE},
             {NoneVal}, SplitConfigs)

NextGen ==
    \/ Params
    \/ LenF
    \/ DataF
    \/ \E flt \in Filters : SetFilter("parent", flt)
    \/ ResetFilter("parent")
    \/ ReadSplitData("parent")
    \/ ValBatchCount
    \/ TestBatchCount

SpecGen == InitGen /\ [][NextGen]_vars

(* SpecBatch: a configured facade and its train/val/test batch accessors   *)

InitBatch ==
    InitWith((0..MaxIds) \cup (DefaultBatchSize..(DefaultBatchSize + MaxExtraIds)),
             (1..MaxBatchSize) \cup {DefaultBatchSize},
             BOOLEAN, SegAugConfigs, Seeds, SplitConfigs)

NextBatch ==
    \/ TrainBatchCount
    \/ ValBatchCount
    \/ TestBatchCount
    \/ \E i \in 0..MaxBatchId : TrainBatchData(i)
    \/ \E i \in 0..MaxBatchId : ValBatchData(i)
    \/ \E i \in 0..MaxBatchId : TestBatchData(i)
    \/ ToNN("sub")

SpecBatch == InitBatch /\ [][NextBatch]_vars

----------------------------------------------------------------------------
(* Properties *)

RECURSIVE Flatten(_)
Flatten(ss) == IF ss = <<>> THEN <<>> ELSE Head(ss) \o Flatten(Tail(ss))

Range(s) == {s[i] : i \in 1..Len(s)}

\* the i-th (from 0) run of `size` elements of s, clipped to the end of s
Chunk(s, size, i) == SubSeq(s, i * size + 1, Min((i + 1) * size, Len(s)))

Parent == objs["parent"]
Sub == objs["sub"]

(* C1: with augmentation on and an even batch size B, the identifier       *)
(* slices of batches 0 .. _batch_count(P)-1 of a partition P are pairwise  *)
(* disjoint and, concatenated in index order, equal P's unique-identifier  *)
(* sequence; their lengths sum to the number of unique identifiers of P.   *)
BatchesPartitionP ==
    (gen # NoneVal /\ Parent.augment /\ gen.count # NoneVal) =>
        LET P == UniqueIds(gen.frame.rows)
            fetched == Flatten(gen.batches)
        IN /\ \A i, j \in 1..Len(gen.batches) :
                 i # j => Range(gen.batches[i]) \cap Range(gen.batches[j]) = {}
           /\ gen.next = gen.count.v =>
                 /\ fetched = P
                 /\ Len(fetched) = Cardinality(Range(P))

\* every batch of a partition of three or more identifiers has been fetched,
\* the last one short
BatchesPartitionPReached ==
    /\ gen # NoneVal
    /\ Parent.augment
    /\ gen.count # NoneVal
    /\ gen.next = gen.count.v
    /\ gen.count.v >= 2
    /\ Len(gen.batches[1]) = 2
    /\ Len(gen.batches[gen.count.v]) = 1

(* C2 as stated: with augmentation on and batch size 16, every training    *)
(* batch 0 .. train_batch_count()-1 assembled by to_nn holds exactly 16    *)
(* samples, 8 original and 8 augmented.                                    *)
TrainBatchHas16Samples ==
    (/\ ret.op = "to_nn"
     /\ origin.kind = "train"
     /\ Parent.augment
     /\ Parent.batch_size = 16
     /\ origin.batch_id < Ceil(Len(UniqueIds(origin.frame)), 8)) =>
        /\ ret.val.kind = "samples"
        /\ Len(ret.val.items) = 16
        /\ \A i \in 1..8 : ret.val.items[i].aug = NoneVal
        /\ \A i \in 9..16 : ret.val.items[i].aug # NoneVal

(* C2 amended: with augmentation on and batch size 16, training batch i of *)
(* a partition of n unique identifiers holds k originals followed by their *)
(* k augmented copies, k = min(8, n - 8i): 16 samples for every batch but  *)
(* the last, and for the last one only when n is a multiple of 8.          *)
TrainBatchHasTwicePerIdentifier ==
    (/\ ret.op = "to_nn"
     /\ origin.kind = "train"
     /\ Parent.augment
     /\ Parent.batch_size = 16
     /\ origin.batch_id < Ceil(Len(UniqueIds(origin.frame)), 8)) =>
        LET n == Len(UniqueIds(origin.frame))
            k == Min(8, n - 8 * origin.batch_id)
            samples == ret.val.items
        IN /\ ret.val.kind = "samples"
           /\ Len(samples) = 2 * k
           /\ \A i \in 1..k :
                 /\ samples[i].aug = NoneVal
                 /\ samples[k + i].aug # NoneVal
                 /\ samples[k + i].ImageId = samples[i].ImageId
           /\ (origin.batch_id < Ceil(n, 8) - 1 \/ n % 8 = 0) => Len(samples) = 16
           /\ (origin.batch_id = Ceil(n, 8) - 1 /\ n % 8 # 0) =>
                 Len(samples) = 2 * (n % 8)

\* a train partition of more than 16 identifiers: its last batch is short
TrainBatchShortReached ==
    /\ ret.op = "to_nn"
    /\ origin.kind = "train"
    /\ Parent.augment
    /\ Parent.batch_size = 16
    /\ Len(UniqueIds(origin.frame)) > 16
    /\ origin.batch_id = 2
    /\ ret.val.kind = "samples"
    /\ Len(ret.val.items) = 2

(* C3: the split that split_data returns was computed from exactly the     *)
(* records visible under the filter currently set; a cached split is never *)
(* served across a filter change; after reset_filter the active filter is  *)
(* the always-true filter.                                                 *)
SplitReflectsFilter ==
    /\ \A f \in Addrs :
          (Exists(f) /\ objs[f]._split_data # NoneVal) =>
              objs[f]._split_data.df = df(objs, f)
    /\ ret.op = "split_data" => ret.val.df = df(objs, ret.who)
    /\ ret.op = "reset_filter" => objs[ret.who]._data_filter = ALWAYS_TRUE

\* split_data returned a split of a table that the active filter restricts
SplitReflectsFilterReached ==
    /\ ret.op = "split_data"
    /\ ret.who = "parent"
    /\ Parent._data_filter = "HasArea"
    /\ Len(ret.val.df) > 0
    /\ Len(ret.val.df) < Len(Parent._df)

(* C4: image_ids returns the unique image identifiers of the records       *)
(* visible under the filter currently set, never a list cached under an    *)
(* earlier filter.                                                         *)
ImageIdsReflectFilter ==
    ret.op = "image_ids" => ret.val.items = UniqueIds(df(objs, ret.who))

(* C5: validation and test batches are never augmented: their counts and   *)
(* slices use the full configured batch size, their sub-facade has         *)
(* augmentation off and the batch holds one sample per identifier of its   *)
(* slice; only train batches follow the facade's augment flag.             *)
ValTestNeverAugmented ==
    /\ (origin # NoneVal /\ origin.kind \in {"val", "test"}) =>
          LET slice == Chunk(UniqueIds(origin.frame), Parent.batch_size,
                             origin.batch_id)
          IN /\ Sub.augment = FALSE
             /\ UniqueIds(Sub._df) = slice
             /\ (ret.op = "to_nn" /\ slice # <<>>) =>
                   ret.val = [kind |-> "samples",
                              items |-> [i \in 1..Len(slice) |->
                                            [ImageId |-> slice[i], aug |-> NoneVal]]]
    /\ ret.op \in {"val_batch_count", "test_batch_count"} =>
          ret.val = Some(Ceil(Len(UniqueIds(ret.arg.rows)), Parent.batch_size))
    /\ (origin # NoneVal /\ origin.kind = "train") =>
          Sub.augment = Parent.augment

\* a validation batch of an augmenting facade, two identifiers wide
ValTestNeverAugmentedReached ==
    /\ ret.op = "to_nn"
    /\ origin.kind = "val"
    /\ Parent.augment
    /\ Parent.batch_size = 2
    /\ ret.val.kind = "samples"
    /\ Len(ret.val.items) = 2

(* C6: an odd batch size with augmentation enabled is rejected at          *)
(* construction, before any batch count or batch data is computed; every   *)
(* facade that exists, batch sub-facades included, has an even batch size  *)
(* whenever its augmentation flag is on.                                   *)
OddBatchRejected ==
    /\ (ret.op = "__init__" /\ ret.arg.augment /\ ret.arg.batch_size % 2 = 1) =>
          Parent = AssertionError
    /\ Parent = AssertionError =>
          (ret.op = "__init__" /\ Sub = NoneVal /\ origin = NoneVal /\ gen = NoneVal)
    /\ \A f \in Addrs :
          (Exists(f) /\ objs[f].augment) => objs[f].batch_size % 2 = 0

\* the constructor was given an odd batch size with augmentation on
OddBatchRejectedReached ==
    /\ ret.op = "__init__"
    /\ ret.arg.augment
    /\ ret.arg.batch_size % 2 = 1
    /\ Parent = AssertionError

(* C7: no operation on a sub-facade changes its parent's record table,     *)
(* active filter, cached identifier list or cached split.                  *)
SubFacadeIndependent ==
    [][ret'.who = "sub" =>
          /\ objs'["parent"]._df = objs["parent"]._df
          /\ objs'["parent"]._data_filter = objs["parent"]._data_filter
          /\ objs'["parent"]._image_ids = objs["parent"]._image_ids
          /\ objs'["parent"]._split_data = objs["parent"]._split_data]_vars

\* the sub-facade's filter was set while the parent holds another filter
\* and both of its caches
SubFacadeIndependentReached ==
    /\ ret.op = "data_filter="
    /\ ret.who = "sub"
    /\ Sub._data_filter = "Nothing"
    /\ Parent._data_filter = "HasArea"
    /\ Parent._image_ids # EmptyList
    /\ Parent._split_data # NoneVal

(* C9: the sub-facade of a training batch carries the parent's             *)
(* augmentation configuration and random seed, so the batch assembled for  *)
(* a batch index is the one fixed by the records, the batch size, the      *)
(* seg_aug_config and the aug_random_seed the facade was built with.       *)
TrainBatchReproducible ==
    (/\ origin.kind = "train"
     /\ Parent.augment
     /\ origin.batch_id < Ceil(Len(UniqueIds(origin.frame)), Parent.batch_size \div 2)) =>
        /\ Sub.augmentation.config = Parent.augmentation.config
        /\ Sub.augmentation.seed = Parent.augmentation.seed
        /\ (ret.op = "to_nn" /\ ret.val.kind = "samples"
               /\ Parent.augmentation.seed # NoneVal) =>
              \A i \in 1..Len(ret.val.items) :
                 ret.val.items[i].aug \in
                    {NoneVal, [config |-> Parent.augmentation.config,
                               seed |-> Parent.augmentation.seed,
                               draw |-> 0]}

(* C10: the (count_fn, data_fn) pair of one params() call is bound to the  *)
(* train dataframe read at that call: every data_fn(i) slices that         *)
(* dataframe, batches 0 .. count_fn()-1 cover it exactly once, whatever    *)
(* the filter or the split has become since; the val/test accessors        *)
(* re-read the current split on every call.                                *)
PairBoundToSnapshot ==
    /\ (gen # NoneVal /\ gen.count # NoneVal) =>
          LET P == UniqueIds(gen.frame.rows)
              size == Parent.batch_size \div (IF Parent.augment THEN 2 ELSE 1)
          IN /\ gen.count = Some(Ceil(Len(P), size))
             /\ Len(gen.batches) = gen.next
             /\ \A i \in 1..Len(gen.batches) :
                   gen.batches[i] = Chunk(P, size, i - 1)
             /\ gen.next = gen.count.v =>
                   \A id \in Range(P) :
                      Cardinality({i \in 1..Len(gen.batches) :
                                      id \in Range(gen.batches[i])}) = 1
    /\ ret.op = "val_batch_count" =>
          ret.arg.rows =
             GroupDataSplit(df(objs, "parent"), Parent.split_config).val_df
    /\ ret.op = "test_batch_count" =>
          ret.arg.rows =
             GroupDataSplit(df(objs, "parent"), Parent.split_config).test_df

\* the pair's batches were all fetched after the filter had hidden every
\* record and the split had been recomputed
PairBoundToSnapshotReached ==
    /\ gen # NoneVal
    /\ gen.count # NoneVal
    /\ gen.next = gen.count.v
    /\ gen.count.v >= 2
    /\ ret.op = "data_f"
    /\ Parent._data_filter = "Nothing"
    /\ Parent._split_data # NoneVal

====
